---------------------------- MODULE Spec2Model ----------------------------
(***************************************************************************)
(* A model of the two Blender add-ons of this repository:                  *)
(*   export_simplifier.py  - the unwrap / bake / export operators          *)
(*   export_tester.py      - the batch exporter and its option tables      *)
(*                                                                         *)
(* Strings on which the code computes (concatenation, lower(), strip())    *)
(* are sequences of one-character strings, so that "a" + "_" + "b" is      *)
(* \o and lower() is a map over the characters.  Strings that the code     *)
(* only compares or uses as keys of a fixed vocabulary stay TLA+ strings.  *)
(***************************************************************************)
EXTENDS Integers, Sequences, FiniteSets, Bags, TLC

VARIABLES
    \* ---- expand_options (export_tester.py) ----
    basename,           \* argument basename
    argname,            \* argument argname
    values,             \* argument values (a list)
    additional_args,    \* argument additional_args: [isNone, args]
    d,                  \* the returned dict: option name -> identity of its argument dict
    dicts,              \* the argument dict objects: identity -> dict
    xpc,                \* "idle" before the call, "returned" after it
    \* ---- texture allocation (SIMPLIFIER_OT_bake.generate_texture) ----
    images,             \* bpy.data.images: name -> [w, h]
    texture_name,       \* baker.texture_name
    width,              \* baker.width
    height,             \* baker.height
    bake_types,         \* baker.bake_types (a set of enum identifiers)
    textures_to_create, \* self.textures_to_create
    order,              \* the order in which this process iterates that set
    gpc,                \* "idle", or "returned" after a call of generate_texture
    gret,               \* the value the last call returned
    imagesHist,         \* bpy.data.images before the first call and after each call
    \* ---- batch exporter (EXPORT_TESTER_OT_export_tester) ----
    t_objects,          \* context.scene.objects, in iteration order
    t_selected,         \* names of the selected objects
    t_active,           \* context.view_layer.objects.active: a name, or <<>> for None
    t_mode,             \* interaction mode of the active object
    t_filepath,         \* bpy.data.filepath is set (the blend file is saved)
    export_enum,        \* self.export_enum
    export_options,     \* self.export_options: format -> option-set names
    tester,             \* locals of execute: [pc, fi, current_mode, active_obj]
    calls,              \* bag of the exporter calls made: [format, filepath, selection]
    \* ---- the scene the simplifier operators work on (export_simplifier.py) ----
    scene,              \* objects, selection, active object, mode, object data
    simplifier,         \* context.scene.simplifier: format, gltf_format, unwrap, bake
    exp,                \* SIMPLIFIER_OT_export: position and locals of execute
    exported,           \* the exporter calls made, in order
    \* ---- the bake operator (SIMPLIFIER_OT_bake) ----
    use_texture,        \* baker.use_texture
    export_after,       \* baker.export_after
    device,             \* baker.device
    engine,             \* scene.render.engine
    cycles_device,      \* scene.cycles.device
    material_slots,     \* the materials in the slots of the active object
    material_group,     \* scene.material_group: [material, selected]
    node_trees,         \* material -> its node tree
    bk,                 \* SIMPLIFIER_OT_bake: position, locals and attributes
    bakes,              \* the calls of bpy.ops.object.bake that succeeded, in order
    saved,              \* the image files written
    \* ---- the node layout of prepare_new_nodes ----
    output_location,    \* output_node.location: [x, y]
    locations,          \* the locations of the other nodes of the tree, in order
    new_locations,      \* key -> location of each node prepare_new_nodes created
    lpc                 \* "idle" before prepare_new_nodes, "placed" after it

expandVars == <<basename, argname, values, additional_args, d, dicts, xpc>>
bakerVars  == <<texture_name, width, height, bake_types, order,
               use_texture, export_after, device>>
texVars    == <<images, textures_to_create, gpc, gret, imagesHist>>

testerVars == <<t_objects, t_selected, t_active, t_mode, t_filepath,
                export_enum, export_options, tester, calls>>

exportVars == <<scene, simplifier, exp, exported>>

bakeVars   == <<engine, cycles_device, material_slots, material_group,
               node_trees, bk, bakes, saved>>

sceneVars  == <<exportVars, bakeVars>>

layoutVars == <<output_location, locations, new_locations, lpc>>

vars == <<expandVars, bakerVars, texVars, testerVars, sceneVars, layoutVars>>

---------------------------------------------------------------------------
(* Helpers on finite functions and sequences                               *)

EmptyDict == [k \in {} |-> 0]

Range(s) == {s[i] : i \in DOMAIN s}

SetMax(S) == CHOOSE m \in S : \A n \in S : n <= m

\* All sequences over S of length at most n
SeqsUpTo(S, n) == UNION {[1..k -> S] : k \in 0..n}

---------------------------------------------------------------------------
(* str.lower()                                                             *)

UpperChars == <<"A","B","C","D","E","F","G","H","I","J","K","L","M",
                "N","O","P","Q","R","S","T","U","V","W","X","Y","Z">>
LowerChars == <<"a","b","c","d","e","f","g","h","i","j","k","l","m",
                "n","o","p","q","r","s","t","u","v","w","x","y","z">>

LowerChar(c) ==
    IF \E i \in DOMAIN UpperChars : UpperChars[i] = c
    THEN LowerChars[CHOOSE i \in DOMAIN UpperChars : UpperChars[i] = c]
    ELSE c

Lower(s) == [i \in DOMAIN s |-> LowerChar(s[i])]

---------------------------------------------------------------------------
(* export_tester.py: expand_options                                        *)

MaxValues == 2

\* the strings the calls are made with
Str_scale == <<"s","c","a","l","e">>
Str_p_m   == <<"p","_","m">>
Str_2_0   == <<"2",".","0">>
Str_AUTO  == <<"A","U","T","O">>
Str_Auto  == <<"A","u","t","o">>
Str_COPY  == <<"C","O","P","Y">>

ExpandBasenames == {Str_scale, Str_p_m}
ExpandArgnames  == {"global_scale", "path_mode"}
ExpandValues    == {Str_2_0, Str_AUTO, Str_Auto, Str_COPY}
ExpandAdditional ==
    { [isNone |-> TRUE,  args |-> EmptyDict],
      [isNone |-> FALSE, args |-> EmptyDict],
      [isNone |-> FALSE, args |-> ("global_scale" :> Str_2_0)],
      [isNone |-> FALSE, args |-> ("apply_unit_scale" :> Str_COPY)] }

\* basename + "_" + value.lower()
OptionNameNoLower(bn, v) == bn \o <<"_">> \o v
OptionName(bn, v) == bn \o <<"_">> \o Lower(v)

\* the dict comprehension of line 36: the values are visited in list order, each
\* makes a new dict object (its identity is the index of the value) and binds
\* its key to it; a later value with the same key replaces the binding.
RECURSIVE Comprehension(_, _, _, _)
Comprehension(bn, vals, i, acc) ==
    IF i > Len(vals) THEN acc
    ELSE Comprehension(bn, vals, i + 1, (OptionName(bn, vals[i]) :> i) @@ acc)

\* `if additional_args:` is false for None and for the empty dict
Truthy(extra) == ~extra.isNone /\ DOMAIN extra.args # {}

\* args_dict.update(additional_args) on the dict {argname: value}
UpdatedArgsNoExtra(an, v, extra) == (an :> v)
UpdatedArgs(an, v, extra) ==
    IF Truthy(extra) THEN extra.args @@ (an :> v) ELSE (an :> v)

expand_options ==
    /\ xpc = "idle"
    /\ LET dd == Comprehension(basename, values, 1, EmptyDict)
       IN  /\ d' = dd
           /\ dicts' = [i \in Range(dd) |->
                           UpdatedArgs(argname, values[i], additional_args)]
    /\ xpc' = "returned"
    /\ UNCHANGED <<basename, argname, values, additional_args>>
    /\ UNCHANGED <<bakerVars, texVars, testerVars, sceneVars, layoutVars>>

---------------------------------------------------------------------------
(* export_tester.py: the option tables.  Only the option-set names are     *)
(* kept: perform_export passes each argument dict on to the exporter       *)
(* without reading it.                                                     *)

\* the names expand_options yields for a basename and a list of values
ExpandedNames(bn, vals) == DOMAIN Comprehension(bn, vals, 1, EmptyDict)

F_obj == <<"o","b","j">>
F_fbx == <<"f","b","x">>
F_glb == <<"g","l","b">>
F_gltf == <<"g","l","t","f">>
F_stl == <<"s","t","l">>

EXPORT_OPTIONS_MODELS_obj ==
    { <<"d","e","f","a","u","l","t">>,
      <<"o","b","j","_","g","r","o","u","p","s">>,
      <<"s","c","a","l","e">>,
      <<"t","r","i","a","n","g","u","l","a","t","e","_","f","a","c","e","s">>,
      <<"s","m","o","o","t","h","_","g","r","o","u","p","s">>,
      <<"s","m","o","o","t","h","_","g","r","o","u","p","s","_","b","i","t","f","l","a","g","s">>,
      <<"o","r","i","e","n","t","a","t","i","o","n">> }

EXPORT_OPTIONS_MODELS_fbx ==
    { <<"d","e","f","a","u","l","t">>,
      <<"u","s","e","_","c","u","s","t","o","m","_","p","r","o","p","s">>,
      <<"u","s","e","_","s","u","b","s","u","r","f">>,
      <<"u","s","e","_","s","p","a","c","e","_","t","r","a","n","s","f","o","r","m">>,
      <<"u","s","e","_","t","a","n","g","e","n","t","_","s","p","a","c","e">>,
      <<"s","c","a","l","e">>,
      <<"a","p","p","l","y","_","u","n","i","t","_","s","c","a","l","e">>,
      <<"a","p","p","l","y","_","u","n","i","t","_","s","c","a","l","e","_","x","2">>,
      <<"a","p","p","l","y","_","u","n","i","t","_","s","c","a","l","e","_","a","p","p","l","y","_","t","r","a","n","s","f","o","r","m">>,
      <<"o","r","i","e","n","t","a","t","i","o","n">> }
    \cup ExpandedNames(<<"a","p","p","l","y","_","s","c","a","l","e","_","o","p","t","i","o","n","s">>, <<<<"F","B","X","_","S","C","A","L","E","_","N","O","N","E">>, <<"F","B","X","_","S","C","A","L","E","_","U","N","I","T","S">>, <<"F","B","X","_","S","C","A","L","E","_","C","U","S","T","O","M">>, <<"F","B","X","_","S","C","A","L","E","_","A","L","L">>>>)
    \cup ExpandedNames(<<"m","e","s","h","_","s","m","o","o","t","h","_","t","y","p","e">>, <<<<"O","F","F">>, <<"F","A","C","E">>, <<"E","D","G","E">>>>)

EXPORT_OPTIONS_MODELS_stl ==
    { <<"d","e","f","a","u","l","t">>,
      <<"s","c","a","l","e">>,
      <<"u","s","e","_","s","c","e","n","e","_","u","n","i","t">>,
      <<"s","c","a","l","e","_","a","n","d","_","s","c","e","n","e","_","u","n","i","t">>,
      <<"s","c","a","l","e","_","a","n","d","_","s","c","e","n","e","_","u","n","i","t","_","p","e","r","_","o","b","j","e","c","t">>,
      <<"s","c","a","l","e","_","a","n","d","_","s","c","e","n","e","_","u","n","i","t","_","p","e","r","_","o","b","j","e","c","t","_","i","n","_","a","s","c","i","i">>,
      <<"a","s","c","i","i">>,
      <<"b","a","t","c","h","_","m","o","d","e">>,
      <<"o","r","i","e","n","t","a","t","i","o","n">>,
      <<"o","r","i","e","n","t","a","t","i","o","n","_","i","n","_","a","s","c","i","i">>,
      <<"o","r","i","e","n","t","a","t","i","o","n","_","e","a","c","h","_","o","b","j","e","c","t">> }

EXPORT_OPTIONS_MODELS_glb ==
    { <<"d","e","f","a","u","l","t">>,
      <<"c","u","s","t","o","m","_","p","r","o","p","e","r","t","i","e","s">>,
      <<"e","x","p","o","r","t","_","n","o","t","_","y","_","u","p">>,
      <<"a","p","p","l","y","_","m","o","d","i","f","i","e","r","s">> }

EXPORT_OPTIONS_MODELS_gltf ==
    { <<"d","e","f","a","u","l","t">>,
      <<"c","u","s","t","o","m","_","p","r","o","p","e","r","t","i","e","s">>,
      <<"e","x","p","o","r","t","_","n","o","t","_","y","_","u","p">>,
      <<"a","p","p","l","y","_","m","o","d","i","f","i","e","r","s">>,
      <<"s","e","p","a","r","a","t","e","_","d","e","f","a","u","l","t">>,
      <<"s","e","p","a","r","a","t","e","_","c","u","s","t","o","m","_","p","r","o","p","e","r","t","i","e","s">>,
      <<"s","e","p","a","r","a","t","e","_","e","x","p","o","r","t","_","n","o","t","_","y","_","u","p">>,
      <<"s","e","p","a","r","a","t","e","_","a","p","p","l","y","_","m","o","d","i","f","i","e","r","s">> }

EXPORT_OPTIONS_MODELS ==
    (F_obj :> EXPORT_OPTIONS_MODELS_obj) @@
    (F_fbx :> EXPORT_OPTIONS_MODELS_fbx) @@
    (F_stl :> EXPORT_OPTIONS_MODELS_stl) @@
    (F_glb :> EXPORT_OPTIONS_MODELS_glb) @@
    (F_gltf :> EXPORT_OPTIONS_MODELS_gltf)

EXPORT_OPTIONS_MATERIALS_obj ==
    { <<"d","e","f","a","u","l","t">>,
      <<"w","r","i","t","e","_","m","a","t","e","r","i","a","l","s">>,
      <<"m","a","t","e","r","i","a","l","_","g","r","o","u","p","s">> }
    \cup ExpandedNames(<<"p","a","t","h","_","m","o","d","e">>, <<<<"A","U","T","O">>, <<"A","B","S","O","L","U","T","E">>, <<"R","E","L","A","T","I","V","E">>, <<"C","O","P","Y">>>>)

EXPORT_OPTIONS_MATERIALS_fbx ==
    { <<"d","e","f","a","u","l","t">>,
      <<"p","a","t","h","_","m","o","d","e","_","c","o","p","y","_","e","m","b","e","d">> }
    \cup ExpandedNames(<<"p","a","t","h","_","m","o","d","e">>, <<<<"A","U","T","O">>, <<"A","B","S","O","L","U","T","E">>, <<"R","E","L","A","T","I","V","E">>, <<"C","O","P","Y">>>>)
    \cup ExpandedNames(<<"a","p","p","l","y","_","s","c","a","l","e","_","o","p","t","i","o","n","s">>, <<<<"F","B","X","_","S","C","A","L","E","_","N","O","N","E">>, <<"F","B","X","_","S","C","A","L","E","_","U","N","I","T","S">>, <<"F","B","X","_","S","C","A","L","E","_","C","U","S","T","O","M">>, <<"F","B","X","_","S","C","A","L","E","_","A","L","L">>>>)
    \cup ExpandedNames(<<"m","e","s","h","_","s","m","o","o","t","h","_","t","y","p","e">>, <<<<"O","F","F">>, <<"F","A","C","E">>, <<"E","D","G","E">>>>)

EXPORT_OPTIONS_MATERIALS_glb ==
    { <<"d","e","f","a","u","l","t">> }
    \cup ExpandedNames(<<"e","x","p","o","r","t","_","i","m","a","g","e","_","f","o","r","m","a","t">>, <<<<"A","U","T","O">>, <<"J","P","E","G">>>>)
    \cup ExpandedNames(<<"e","x","p","o","r","t","_","m","a","t","e","r","i","a","l","s">>, <<<<"E","X","P","O","R","T">>, <<"P","L","A","C","E","H","O","L","D","E","R">>, <<"N","O","N","E">>>>)

EXPORT_OPTIONS_MATERIALS_gltf ==
    { <<"d","e","f","a","u","l","t","_","e","m","b","e","d","d","e","d">>,
      <<"s","e","p","a","r","a","t","e","_","d","e","f","a","u","l","t">>,
      <<"s","e","p","a","r","a","t","e","_","t","e","x","t","u","r","e","s","_","f","o","l","d","e","r">> }
    \cup ExpandedNames(<<"e","x","p","o","r","t","_","i","m","a","g","e","_","f","o","r","m","a","t">>, <<<<"A","U","T","O">>, <<"J","P","E","G">>>>)
    \cup ExpandedNames(<<"e","x","p","o","r","t","_","m","a","t","e","r","i","a","l","s">>, <<<<"E","X","P","O","R","T">>, <<"P","L","A","C","E","H","O","L","D","E","R">>, <<"N","O","N","E">>>>)
    \cup ExpandedNames(<<"s","e","p","a","r","a","t","e","_","e","x","p","o","r","t","_","i","m","a","g","e","_","f","o","r","m","a","t">>, <<<<"A","U","T","O">>, <<"J","P","E","G">>>>)
    \cup ExpandedNames(<<"s","e","p","a","r","a","t","e","_","e","x","p","o","r","t","_","i","m","a","g","e","_","f","o","r","m","a","t","_","o","r","i","g","i","n","a","l">>, <<<<"A","U","T","O">>, <<"J","P","E","G">>>>)
    \cup ExpandedNames(<<"s","e","p","a","r","a","t","e","_","e","x","p","o","r","t","_","m","a","t","e","r","i","a","l","s">>, <<<<"E","X","P","O","R","T">>, <<"P","L","A","C","E","H","O","L","D","E","R">>, <<"N","O","N","E">>>>)

EXPORT_OPTIONS_MATERIALS ==
    (F_obj :> EXPORT_OPTIONS_MATERIALS_obj) @@
    (F_fbx :> EXPORT_OPTIONS_MATERIALS_fbx) @@
    (F_glb :> EXPORT_OPTIONS_MATERIALS_glb) @@
    (F_gltf :> EXPORT_OPTIONS_MATERIALS_gltf)


---------------------------------------------------------------------------
(* str.strip()                                                             *)

IsSpace(c) == c \in {" ", "\t", "\n"}

RECURSIVE LStrip(_)
LStrip(s) == IF s # <<>> /\ IsSpace(Head(s)) THEN LStrip(Tail(s)) ELSE s

RECURSIVE RStrip(_)
RStrip(s) ==
    IF s # <<>> /\ IsSpace(s[Len(s)]) THEN RStrip(SubSeq(s, 1, Len(s) - 1)) ELSE s

Strip(s) == RStrip(LStrip(s))

---------------------------------------------------------------------------
(* export_simplifier.py: BakeDataGroup and texture allocation              *)

MaxTypes == 2
MaxRuns == 2

T_DIFFUSE   == <<"D","I","F","F","U","S","E">>
T_NORMAL    == <<"N","O","R","M","A","L">>
T_ROUGHNESS == <<"R","O","U","G","H","N","E","S","S">>
T_GLOSSY    == <<"G","L","O","S","S","Y">>
T_ALPHA     == <<"A","L","P","H","A">>

\* the items of BakeDataGroup.bake_types
BakeTypes == {T_DIFFUSE, T_NORMAL, T_ROUGHNESS, T_GLOSSY, T_ALPHA}

Str_t     == <<"t">>
Str_blank == <<" ">>
Str_other == <<"o","t","h","e","r">>

\* image dimensions used
Dims == {1, 2}

\* the permutations of a finite set, as sequences
Perms(S) ==
    {p \in [1..Cardinality(S) -> S] : \A i, j \in DOMAIN p : i # j => p[i] # p[j]}

\* texture_name + "_" + map_name
ImageName(name, map_name) == name \o <<"_">> \o map_name

\* texture_exists: "yes" (same name, same size), "conflict" (same name, another
\* size: AttributeError) or "no".  Names of bpy.data.images are unique, so the
\* loop decides on the one image of that name.
TextureExistsNever(imgs, name, w, h) == "no"
TextureExists(imgs, name, w, h) ==
    IF name \notin DOMAIN imgs THEN "no"
    ELSE IF imgs[name].w = w /\ imgs[name].h = h THEN "yes"
    ELSE "conflict"

\* bpy.data.images.new(name=...): a taken name gets a numeric suffix
Suffix1 == <<".","0","0","1">>
Suffix2 == <<".","0","0","2">>
ImagesNew(imgs, name, w, h) ==
    LET free == IF name \notin DOMAIN imgs THEN name
                ELSE IF name \o Suffix1 \notin DOMAIN imgs THEN name \o Suffix1
                ELSE name \o Suffix2
    IN  (free :> [w |-> w, h |-> h]) @@ imgs

\* the loop of generate_texture over self.textures_to_create, from position i of
\* the iteration order: [ok, images]
RECURSIVE GenerateLoop(_, _, _, _, _, _)
GenerateLoop(imgs, name, w, h, ord, i) ==
    IF i > Len(ord) THEN [ok |-> TRUE, images |-> imgs]
    ELSE LET nm == ImageName(name, ord[i])
             ex == TextureExists(imgs, nm, w, h)
         IN  IF ex = "conflict" THEN [ok |-> FALSE, images |-> imgs]
             ELSE IF ex = "yes" THEN GenerateLoop(imgs, name, w, h, ord, i + 1)
             ELSE GenerateLoop(ImagesNew(imgs, nm, w, h), name, w, h, ord, i + 1)

\* generate_texture: [ok, images, textures_to_create]
GenerateTexture(imgs, ttc) ==
    IF Strip(texture_name) = <<>>
    THEN [ok |-> FALSE, images |-> imgs, textures_to_create |-> ttc]
    ELSE LET r == GenerateLoop(imgs, texture_name, width, height, order, 1)
         IN  [ok |-> r.ok, images |-> r.images,
              textures_to_create |-> {Lower(t) : t \in bake_types}]

\* a call of generate_texture
generate_texture ==
    /\ gpc \in {"idle", "returned"}
    /\ Len(imagesHist) <= MaxRuns
    /\ LET r == GenerateTexture(images, textures_to_create)
       IN  /\ images' = r.images
           /\ textures_to_create' = r.textures_to_create
           /\ gret' = r.ok
           /\ imagesHist' = Append(imagesHist, r.images)
    /\ gpc' = "returned"
    /\ UNCHANGED <<expandVars, bakerVars, testerVars, sceneVars,
                   layoutVars>>

---------------------------------------------------------------------------
(* export_tester.py: EXPORT_TESTER_OT_export_tester                        *)

MaxObjects == 3

\* formats = ["obj", "fbx", "glb", "gltf", "stl"]
Formats == <<F_obj, F_fbx, F_glb, F_gltf, F_stl>>

ObjectNames == <<<<"a">>, <<"b">>, <<"c">>, <<"e">>, <<"f">>>>

\* an object of the scene: first_is_separate says users_collection[0] is the
\* collection 'Separate_objects', in_separate that the object is among that
\* collection's all_objects (it always is when first_is_separate)
ObjectKinds ==
    {k \in [type : {"MESH", "EMPTY"}, visible : BOOLEAN,
            first_is_separate : BOOLEAN, in_separate : BOOLEAN] :
        /\ (k.first_is_separate => k.in_separate)
        /\ (k.type = "EMPTY" => k.visible /\ ~k.in_separate)
        /\ (k.in_separate /\ ~k.first_is_separate => k.type = "MESH" /\ k.visible)}

MakeObject(i, k) ==
    [name |-> ObjectNames[i], type |-> k.type, visible |-> k.visible,
     first_is_separate |-> k.first_is_separate, in_separate |-> k.in_separate]

\* os.path.join(obj_dir, obj.name + "_" + arg_name + "." + format), below export_dir
TargetFile(format, name, arg_name) ==
    format \o <<"/">> \o name \o <<"/">> \o name \o <<"_">> \o arg_name
           \o <<".">> \o format

\* select_object: deselect every object, select the named one
SelectObjectKeep(sel, name) == sel \cup {name}
SelectObject(sel, name) == {name}

\* select_objects_in_collection: deselect every object, select all_objects
SelectObjectsInCollection(sel) ==
    {o.name : o \in {x \in Range(t_objects) : x.in_separate}}

\* the `continue` of perform_export (lines 257-260)
SkipNever(obj, collection_exported) == FALSE
SkipObject(obj, collection_exported) ==
    obj.first_is_separate /\ collection_exported

\* EXPORT_FUNCS[format](filepath=target_file, use_selection=True, **kwargs),
\* once per option-set of the format
ExporterCalls(format, name, sel) ==
    SetToBag({[format |-> format, filepath |-> TargetFile(format, name, a),
               selection |-> sel] : a \in export_options[format]})

\* the loop of perform_export from object i on: [raised, selected, calls];
\* raised is the KeyError of self.export_options[format]
RECURSIVE PerformLoop(_, _, _, _, _)
PerformLoop(format, i, collection_exported, sel, bag) ==
    IF i > Len(t_objects) THEN [raised |-> FALSE, selected |-> sel, calls |-> bag]
    ELSE LET obj == t_objects[i]
         IN  IF ~(obj.type = "MESH" /\ obj.visible)
                \/ SkipObject(obj, collection_exported)
             THEN PerformLoop(format, i + 1, collection_exported, sel, bag)
             ELSE LET sel2 == IF obj.first_is_separate
                              THEN SelectObjectsInCollection(sel)
                              ELSE SelectObject(sel, obj.name)
                      ce2 == collection_exported \/ obj.first_is_separate
                  IN  IF format \notin DOMAIN export_options
                      THEN [raised |-> TRUE, selected |-> sel2, calls |-> bag]
                      ELSE PerformLoop(format, i + 1, ce2, sel2,
                                       bag (+) ExporterCalls(format, obj.name, sel2))

\* the option table execute selects (lines 288-297); under ALL the class-level
\* dict is filled format by format
SelectedOptions ==
    IF export_enum = "ALL"
    THEN [f \in Range(Formats) |->
            IF f = F_stl THEN EXPORT_OPTIONS_MODELS[f]
            ELSE EXPORT_OPTIONS_MODELS[f] \cup EXPORT_OPTIONS_MATERIALS[f]] @@ export_options
    ELSE IF export_enum = "MATERIALS" THEN EXPORT_OPTIONS_MATERIALS
    ELSE EXPORT_OPTIONS_MODELS

\* execute up to the walk over the formats (lines 276-308)
tester_execute ==
    /\ tester.pc = "idle"
    /\ export_options' = SelectedOptions
    /\ IF ~t_filepath
       THEN /\ tester' = [tester EXCEPT !.pc = "cancelled"]
            /\ UNCHANGED t_mode
       ELSE IF t_active = <<>>
       THEN /\ tester' = [tester EXCEPT !.pc = "raised"]
            /\ UNCHANGED t_mode
       ELSE /\ tester' = [pc |-> "walk", fi |-> 1, current_mode |-> t_mode,
                          active_obj |-> t_active]
            /\ t_mode' = "OBJECT"
    /\ UNCHANGED <<t_objects, t_selected, t_active, t_filepath, export_enum, calls>>
    /\ UNCHANGED <<expandVars, bakerVars, texVars, sceneVars,
                   layoutVars>>

\* one pass of the loop of line 311: perform_export(context, format)
tester_perform_export ==
    /\ tester.pc = "walk"
    /\ tester.fi <= Len(Formats)
    /\ LET r == PerformLoop(Formats[tester.fi], 1, FALSE, t_selected, calls)
       IN  /\ t_selected' = r.selected
           /\ calls' = r.calls
           /\ tester' = IF r.raised THEN [tester EXCEPT !.pc = "raised"]
                        ELSE [tester EXCEPT !.fi = tester.fi + 1]
    /\ UNCHANGED <<t_objects, t_active, t_mode, t_filepath, export_enum,
                   export_options>>
    /\ UNCHANGED <<expandVars, bakerVars, texVars, sceneVars,
                   layoutVars>>

\* lines 317-321: set back the active object and the mode, return FINISHED
tester_restore ==
    /\ tester.pc = "walk"
    /\ tester.fi > Len(Formats)
    /\ t_active' = tester.active_obj
    /\ t_mode' = tester.current_mode
    /\ tester' = [tester EXCEPT !.pc = "finished"]
    /\ UNCHANGED <<t_objects, t_selected, t_filepath, export_enum,
                   export_options, calls>>
    /\ UNCHANGED <<expandVars, bakerVars, texVars, sceneVars,
                   layoutVars>>

---------------------------------------------------------------------------
(* export_simplifier.py: the scene, and the host operations the code calls *)

MaxSelectable == 2

Str_FBX  == <<"F","B","X">>
Str_OBJ  == <<"O","B","J">>
Str_GLTF == <<"G","L","T","F">>
Str_glb  == <<"g","l","b">>
Str_dot  == <<".">>
Str_001  == <<".","0","0","1">>

\* view_layer.objects.active is None
None == <<>>

SceneNames == <<<<"o","1">>, <<"o","2">>, <<"o","3">>>>

\* the objects of the user's scene, all of them meshes
Originals == {SceneNames[i] : i \in 1..MaxSelectable}

\* the name bpy.ops.object.duplicate gives the copy of an object
DuplicateName(name) == name \o Str_001

\* position of an object in the scene's object list: copies come after
\* the objects of the user
SceneIndex(name) ==
    IF \E i \in DOMAIN SceneNames : SceneNames[i] = name
    THEN CHOOSE i \in DOMAIN SceneNames : SceneNames[i] = name
    ELSE Len(SceneNames) +
         CHOOSE i \in DOMAIN SceneNames : DuplicateName(SceneNames[i]) = name

RECURSIVE InSceneOrder(_)
InSceneOrder(S) ==
    IF S = {} THEN <<>>
    ELSE LET first == CHOOSE o \in S : \A p \in S : SceneIndex(o) <= SceneIndex(p)
         IN  <<first>> \o InSceneOrder(S \ {first})

\* bpy.context.selected_objects
selected_objects(s) == InSceneOrder(s.selected)

\* for obj in bpy.context.scene.objects: obj.select_set(False)
deselect_all_objects(s) == [s EXCEPT !.selected = {}]

\* SIMPLIFIER_OT_export.select_object
select_object(s, name) == [deselect_all_objects(s) EXCEPT !.selected = {name}]

\* obj.location = (0.0, 0.0, 0.0): location 0 is the world origin
correct_origin(s, obj) == [s EXCEPT !.location[obj] = 0]

\* bpy.ops.object.transform_apply(location, rotation, scale): on every
\* selected object the named transforms are baked into the object data; an
\* applied location leaves the object at the origin
TransformApply(s, loc, rot, scl) ==
    LET done == (IF rot THEN {"rotation"} ELSE {}) \cup
                (IF scl THEN {"scale"} ELSE {})
    IN  [s EXCEPT
           !.location = [o \in s.objects |->
                           IF o \in s.selected /\ loc THEN 0 ELSE s.location[o]],
           !.pending  = [o \in s.objects |->
                           IF o \in s.selected THEN s.pending[o] \ done
                                               ELSE s.pending[o]]]

\* SIMPLIFIER_OT_export.apply_transform
apply_transform(s) == TransformApply(s, TRUE, TRUE, TRUE)

\* bpy.ops.object.mode_set(mode='EDIT') puts the active object into edit
\* mode, selected or not, and with it every selected object of its type
EditObjects(s) == {s.active} \cup s.selected

\* bpy.ops.mesh.select_all + bpy.ops.uv.smart_project: every mesh in edit
\* mode gets a projected UV layout in place of what it had.  projections
\* counts the calls of smart_project.
SmartProject(s) ==
    [s EXCEPT !.uv = [o \in s.objects |->
                        IF o \in EditObjects(s) THEN "smart" ELSE s.uv[o]],
              !.projections = @ + 1]

\* unwrap() without its test of model_unwrapped
unwrap_regardless(s) ==
    LET called == [s EXCEPT !.unwraps = @ + 1]
        scaled == TransformApply(called, FALSE, FALSE, TRUE)
    IN  IF s.active = None
        THEN [raised |-> TRUE, scene |-> scaled]
        ELSE [raised |-> FALSE,
              scene  |-> [SmartProject(scaled) EXCEPT !.mode = "OBJECT",
                                                      !.model_unwrapped = TRUE]]

\* unwrap(): [raised, scene].  mode_set needs an active object: without one
\* its poll fails and the call raises RuntimeError, after the scale was
\* applied.  unwraps counts the calls of unwrap().
unwrap(s) ==
    LET called == [s EXCEPT !.unwraps = @ + 1]
        scaled == TransformApply(called, FALSE, FALSE, TRUE)
    IN  IF s.model_unwrapped THEN [raised |-> FALSE, scene |-> called]
        ELSE IF s.active = None
        THEN [raised |-> TRUE, scene |-> scaled]
        ELSE [raised |-> FALSE,
              scene  |-> [SmartProject(scaled) EXCEPT !.mode = "OBJECT",
                                                      !.model_unwrapped = TRUE]]

\* bpy.ops.object.duplicate(linked=False): every selected object gets a copy
\* with its own data; the copies become the selection, and the copy of the
\* active object becomes active if the active object was selected
Duplicate(s) ==
    LET copies == {DuplicateName(o) : o \in s.selected}
        of(c)  == CHOOSE o \in s.selected : DuplicateName(o) = c
        ext(f) == [o \in s.objects \cup copies |->
                     IF o \in s.objects THEN f[o] ELSE f[of(o)]]
    IN  [s EXCEPT !.objects  = s.objects \cup copies,
                  !.selected = copies,
                  !.active   = IF s.active \in s.selected
                               THEN DuplicateName(s.active) ELSE s.active,
                  !.location = ext(s.location),
                  !.pending  = ext(s.pending),
                  !.uv       = ext(s.uv)]

\* bpy.ops.object.delete(): the selected objects leave the scene
Delete(s) ==
    LET rest == s.objects \ s.selected
    IN  [s EXCEPT !.objects  = rest,
                  !.selected = {},
                  !.active   = IF s.active \in s.selected THEN None ELSE s.active,
                  !.location = [o \in rest |-> s.location[o]],
                  !.pending  = [o \in rest |-> s.pending[o]],
                  !.uv       = [o \in rest |-> s.uv[o]]]

---------------------------------------------------------------------------
(* export_simplifier.py: SIMPLIFIER_OT_export                              *)

\* the extension export_unreal gives the target file
Extension(format, gltf_format) ==
    IF format = Str_GLTF /\ gltf_format = "GLB" THEN Str_glb ELSE Lower(format)

\* os.path.join(obj_dir, obj_name + "." + extension), as [dir, file]
ExportTarget(obj_name, extension) ==
    [dir |-> obj_name, file |-> obj_name \o Str_dot \o extension]

\* export_unreal up to the exporter call: [raised, scene]
Repair(s, data) ==
    LET objects == selected_objects(s)
        placed  == IF Len(objects) = 1 THEN correct_origin(s, objects[1]) ELSE s
        applied == IF data.format = Str_GLTF THEN apply_transform(placed) ELSE placed
    IN  IF data.unwrap THEN unwrap(applied)
                       ELSE [raised |-> FALSE, scene |-> applied]

\* for obj in selected: self.select_object(obj.name)
RECURSIVE SelectEach(_, _, _)
SelectEach(s, selected, i) ==
    IF i > Len(selected) THEN s
    ELSE SelectEach(select_object(s, selected[i]), selected, i + 1)

\* SIMPLIFIER_OT_export.set_original_configuration
set_original_configuration(s, mode, selected, active) ==
    [SelectEach(s, selected, 1) EXCEPT !.active = active, !.mode = mode]

\* the locals of execute before the call
ExportIdle ==
    [pc |-> "off", current_mode |-> "OBJECT", active_obj |-> None,
     selected_objects |-> <<>>, obj_name |-> <<>>, ok |-> FALSE]

\* execute up to the call of perform_export
export_execute ==
    /\ exp.pc = "called"
    /\ LET s == [scene EXCEPT !.model_unwrapped = FALSE]
       IN  IF scene.selected = {}
           THEN /\ scene' = s
                /\ exp' = [exp EXCEPT !.pc = "cancelled"]
           ELSE IF scene.active = None
           THEN \* bpy.context.active_object.mode raises AttributeError
                /\ scene' = s
                /\ exp' = [exp EXCEPT !.pc = "raised"]
           ELSE /\ scene' = [s EXCEPT !.mode = "OBJECT"]
                /\ exp' = [exp EXCEPT !.pc = "perform",
                                      !.current_mode = scene.mode,
                                      !.active_obj = scene.active,
                                      !.selected_objects = selected_objects(scene)]
    /\ UNCHANGED <<simplifier, exported>>
    /\ UNCHANGED <<expandVars, bakerVars, texVars, testerVars, bakeVars,
                   layoutVars>>

\* perform_export: obj_name and the duplication
export_duplicate ==
    /\ exp.pc = "perform"
    /\ exp' = [exp EXCEPT !.pc = "subdir",
                          !.obj_name = selected_objects(scene)[1]]
    /\ scene' = Duplicate(scene)
    /\ UNCHANGED <<simplifier, exported>>
    /\ UNCHANGED <<expandVars, bakerVars, texVars, testerVars, bakeVars,
                   layoutVars>>

\* perform_export: create_subdir gives the directory, or "" when
\* os.makedirs raises PermissionError; then the copies are deleted
export_create_subdir ==
    /\ exp.pc = "subdir"
    /\ \E obj_dir \in BOOLEAN :
          IF obj_dir
          THEN /\ exp' = [exp EXCEPT !.pc = "unreal"]
               /\ scene' = scene
          ELSE /\ exp' = [exp EXCEPT !.pc = "restore", !.ok = FALSE]
               /\ scene' = Delete(scene)
    /\ UNCHANGED <<simplifier, exported>>
    /\ UNCHANGED <<expandVars, bakerVars, texVars, testerVars, bakeVars,
                   layoutVars>>

\* export_unreal: repair the selection and call the exporter of the format.
\* An exception of unwrap() or of the exporter leaves the operator.
export_unreal ==
    /\ exp.pc = "unreal"
    /\ LET r == Repair(scene, simplifier)
       IN  /\ scene' = r.scene
           /\ IF r.raised
              THEN /\ exp' = [exp EXCEPT !.pc = "raised"]
                   /\ exported' = exported
              ELSE \E written \in BOOLEAN :
                      IF written
                      THEN /\ exp' = [exp EXCEPT !.pc = "clean_up"]
                           /\ exported' = Append(exported,
                                 [op |-> Lower(simplifier.format),
                                  filepath |-> ExportTarget(exp.obj_name,
                                       Extension(simplifier.format,
                                                 simplifier.gltf_format)),
                                  selection |-> r.scene.selected])
                      ELSE /\ exp' = [exp EXCEPT !.pc = "raised"]
                           /\ exported' = exported
    /\ UNCHANGED simplifier
    /\ UNCHANGED <<expandVars, bakerVars, texVars, testerVars, bakeVars,
                   layoutVars>>

\* perform_export: clean_up after the export, return True
export_clean_up ==
    /\ exp.pc = "clean_up"
    /\ scene' = Delete(scene)
    /\ exp' = [exp EXCEPT !.pc = "restore", !.ok = TRUE]
    /\ UNCHANGED <<simplifier, exported>>
    /\ UNCHANGED <<expandVars, bakerVars, texVars, testerVars, bakeVars,
                   layoutVars>>

\* execute: set_original_configuration and the return value
export_return ==
    /\ exp.pc = "restore"
    /\ scene' = set_original_configuration(scene, exp.current_mode,
                                           exp.selected_objects, exp.active_obj)
    /\ exp' = [exp EXCEPT !.pc = IF exp.ok THEN "finished" ELSE "cancelled"]
    /\ UNCHANGED <<simplifier, exported>>
    /\ UNCHANGED <<expandVars, bakerVars, texVars, testerVars, bakeVars,
                   layoutVars>>

---------------------------------------------------------------------------
(* export_simplifier.py: material node trees as SIMPLIFIER_OT_bake uses    *)
(* them.  A node is [tree, key, serial]: the material whose tree holds it, *)
(* the key under which self.texture_nodes files it, and the call of        *)
(* prepare_new_nodes that made it.                                         *)

MaxMaterials == 2

Materials == {"m1", "m2"}

NoNode == [tree |-> "", key |-> <<>>, serial |-> 0]

\* the node of the user's material that feeds the output node
OldNode(m) == [tree |-> m, key |-> <<"o","l","d">>, serial |-> 0]

Key_principled == <<"p","r","i","n","c","i","p","l","e","d">>
Key_normal_map_node == <<"n","o","r","m","a","l","_","m","a","p","_","n","o","d","e">>

\* a node tree of the user: with or without an OUTPUT_MATERIAL node, whose
\* Surface input is linked to a node of the user or to nothing
TreeKinds ==
    {[has_output |-> TRUE,  surface |-> "old"],
     [has_output |-> TRUE,  surface |-> "none"],
     [has_output |-> FALSE, surface |-> "none"]}

MakeTree(m, kind) ==
    [has_output |-> kind.has_output,
     surface    |-> IF kind.surface = "old" THEN OldNode(m) ELSE NoNode,
     nodes      |-> {},
     active     |-> NoNode]

\* node_tree.nodes.new(...)
NodesNew(trees, node) ==
    [trees EXCEPT ![node.tree].nodes = @ \cup {node}]

\* node_tree.nodes.remove(node): the node goes, and its links with it
NodesRemove(trees, node) ==
    [trees EXCEPT ![node.tree].nodes = @ \ {node},
                  ![node.tree].surface = IF @ = node THEN NoNode ELSE @,
                  ![node.tree].active = IF @ = node THEN NoNode ELSE @]

\* a reference to a node that was removed is dead: using it raises
Alive(trees, node) == node \in trees[node.tree].nodes

\* self.texture_nodes: a dict keyed by node tree, in insertion order, of
\* dicts key -> node, in insertion order
EmptyTextureNodes == [keys |-> <<>>, dict |-> EmptyDict]

\* self.texture_nodes[node_tree] = {}
TextureNodesReset(tn, m) ==
    [keys |-> IF m \in Range(tn.keys) THEN tn.keys ELSE Append(tn.keys, m),
     dict |-> (m :> <<>>) @@ tn.dict]

\* self.texture_nodes[node_tree][key] = node
TextureNodesPut(tn, m, key, node) ==
    [tn EXCEPT !.dict[m] = Append(@, [key |-> key, node |-> node])]

\* self.texture_nodes[node_tree][key]
TextureNodesGet(tn, m, key) ==
    LET e == tn.dict[m]
    IN  e[CHOOSE i \in DOMAIN e : e[i].key = key].node

\* every node self.texture_nodes refers to, in the order clean_up visits them
RECURSIVE Flatten(_, _)
Flatten(tn, i) ==
    IF i > Len(tn.keys) THEN <<>>
    ELSE [j \in DOMAIN tn.dict[tn.keys[i]] |-> tn.dict[tn.keys[i]][j].node]
         \o Flatten(tn, i + 1)

\* nodes.remove for each node of a list in turn, up to the first dead one:
\* [raised, trees]
RECURSIVE RemoveAll(_, _, _)
RemoveAll(trees, nodes, i) ==
    IF i > Len(nodes) THEN [raised |-> FALSE, trees |-> trees]
    ELSE IF ~Alive(trees, nodes[i]) THEN [raised |-> TRUE, trees |-> trees]
    ELSE RemoveAll(NodesRemove(trees, nodes[i]), nodes, i + 1)

\* SIMPLIFIER_OT_bake.clean_up(context): [raised, trees]
bake_clean_up(trees, tn) == RemoveAll(trees, Flatten(tn, 1), 1)

\* SIMPLIFIER_OT_bake.clean_up(context, specific_texture): [raised, trees]
bake_clean_up_specific(trees, tn, specific_texture) ==
    RemoveAll(trees,
              [i \in DOMAIN tn.keys |->
                  TextureNodesGet(tn, tn.keys[i], specific_texture)], 1)

---------------------------------------------------------------------------
(* export_simplifier.py: SIMPLIFIER_OT_bake                                *)

\* the texture nodes of prepare_new_nodes, one per map name in iteration
\* order: [trees, tn]
RECURSIVE NewTextureNodes(_, _, _, _, _)
NewTextureNodes(trees, tn, m, serial, i) ==
    IF i > Len(order) THEN [trees |-> trees, tn |-> tn]
    ELSE LET node == [tree |-> m, key |-> order[i], serial |-> serial]
         IN  NewTextureNodes(NodesNew(trees, node),
                             TextureNodesPut(tn, m, order[i], node),
                             m, serial, i + 1)

\* prepare_new_nodes on the tree of material m, as call number serial of
\* this run.  st is [trees, tn, new, old]; the result adds
\* result: "true", "false" (no output node) or "raised" (IndexError: the
\* Surface input of the output node has no link).
\* A queued connection is [tree, node, bound]: the lambda of "new" reads the
\* local principled_node when it is called, and that local is bound only if
\* the principled node was created.
prepare_new_nodes(st, m, serial) ==
    IF ~st.trees[m].has_output THEN st @@ [result |-> "false"]
    ELSE IF st.trees[m].surface = NoNode THEN st @@ [result |-> "raised"]
    ELSE
      LET old_node   == st.trees[m].surface
          tex        == NewTextureNodes(st.trees, TextureNodesReset(st.tn, m),
                                        m, serial, 1)
          wired      == (use_texture \/ export_after) /\ textures_to_create # {}
          principled == [tree |-> m, key |-> Key_principled, serial |-> serial]
          normal_map == [tree |-> m, key |-> Key_normal_map_node, serial |-> serial]
          with_normal == wired /\ Lower(T_NORMAL) \in textures_to_create
          trees1 == IF wired THEN NodesNew(tex.trees, principled) ELSE tex.trees
          tn1    == IF wired THEN TextureNodesPut(tex.tn, m, Key_principled, principled)
                             ELSE tex.tn
          trees2 == IF with_normal THEN NodesNew(trees1, normal_map) ELSE trees1
          tn2    == IF with_normal
                    THEN TextureNodesPut(tn1, m, Key_normal_map_node, normal_map)
                    ELSE tn1
          queue  == use_texture \/ export_after
      IN  [result |-> "true",
           trees  |-> trees2,
           tn     |-> tn2,
           new    |-> IF queue
                      THEN Append(st.new, [tree |-> m, node |-> principled,
                                           bound |-> wired])
                      ELSE st.new,
           old    |-> IF queue /\ ~use_texture
                      THEN Append(st.old, [tree |-> m, node |-> old_node,
                                           bound |-> TRUE])
                      ELSE st.old]

\* node_tree.links.new(node.outputs[...], output_node.inputs[0]) for each
\* queued connection in turn: [raised, trees, dead].  A call raises NameError
\* when its local was never bound and ReferenceError when the node was
\* removed; dead tells the second from the first.
RECURSIVE ConnectAll(_, _, _)
ConnectAll(trees, queue, i) ==
    IF i > Len(queue) THEN [raised |-> FALSE, trees |-> trees, dead |-> FALSE]
    ELSE LET c == queue[i]
         IN  IF ~c.bound THEN [raised |-> TRUE, trees |-> trees, dead |-> FALSE]
             ELSE IF c.node # OldNode(c.tree) /\ ~Alive(trees, c.node)
             THEN [raised |-> TRUE, trees |-> trees, dead |-> TRUE]
             ELSE ConnectAll([trees EXCEPT ![c.tree].surface = c.node],
                             queue, i + 1)

\* set_nodes_as_active taking the first texture node of each tree, whatever
\* the texture type
RECURSIVE set_first_as_active(_, _, _, _)
set_first_as_active(trees, tn, texture_type, i) ==
    IF i > Len(tn.keys) THEN trees
    ELSE set_first_as_active(
            [trees EXCEPT ![tn.keys[i]].active = tn.dict[tn.keys[i]][1].node],
            tn, texture_type, i + 1)

\* SIMPLIFIER_OT_bake.set_nodes_as_active
RECURSIVE set_nodes_as_active(_, _, _, _)
set_nodes_as_active(trees, tn, texture_type, i) ==
    IF i > Len(tn.keys) THEN trees
    ELSE set_nodes_as_active(
            [trees EXCEPT ![tn.keys[i]].active =
                              TextureNodesGet(tn, tn.keys[i], texture_type)],
            tn, texture_type, i + 1)

\* execute: selected_materials
SelectedMaterials ==
    LET chosen == SelectSeq(material_group,
                      LAMBDA e : e.selected /\ e.material \in Range(material_slots))
    IN  [i \in DOMAIN chosen |-> chosen[i].material]

\* the locals and attributes of the operator before the call; events is
\* the record of the steps bake_textures and execute have taken: "bake" a
\* map baked, "save" the images saved, "new" and "old" a list of queued
\* connections run, "export" the export operator called, "remove" clean_up;
\* reused tells that a node was used or removed after it had been removed
BakeIdle ==
    [pc |-> "off", selected_materials |-> <<>>, mi |-> 1,
     texture_nodes |-> EmptyTextureNodes, new |-> <<>>, old |-> <<>>,
     renderer_used |-> "", ci |-> 1, fail |-> "", events |-> <<>>,
     reused |-> FALSE]

\* execute up to the call of bake_textures: the checks, unwrap, the material
\* list and generate_texture.  os.path.exists(export_dir) is the file
\* system's answer.
bake_execute ==
    /\ bk.pc = "called"
    /\ \E dir_exists \in BOOLEAN :
       LET s0 == [scene EXCEPT !.model_unwrapped = FALSE]
           u  == IF simplifier.unwrap THEN unwrap(s0)
                                      ELSE [raised |-> FALSE, scene |-> s0]
           g  == GenerateTexture(images, textures_to_create)
           stop(pc, fail, s) ==
               /\ bk' = [bk EXCEPT !.pc = pc, !.fail = fail]
               /\ scene' = s
               /\ UNCHANGED <<images, textures_to_create>>
       IN  IF ~simplifier.bake THEN stop("cancelled", "bake_off", s0)
           ELSE IF Cardinality(scene.selected) # 1
           THEN stop("cancelled", "selection", s0)
           ELSE IF export_after /\ ~dir_exists
           THEN stop("cancelled", "export_dir", s0)
           ELSE IF u.raised THEN stop("raised", "unwrap", u.scene)
           ELSE IF ~simplifier.unwrap /\ scene.active = None
           THEN \* bpy.context.object.data raises AttributeError
                stop("raised", "no_active", s0)
           ELSE IF ~simplifier.unwrap /\ scene.uv[scene.active] = "none"
           THEN stop("cancelled", "no_uv", s0)
           ELSE IF SelectedMaterials = <<>>
           THEN stop("cancelled", "no_materials", u.scene)
           ELSE IF ~g.ok
           THEN /\ bk' = [bk EXCEPT !.pc = "cancelled", !.fail = IF Strip(texture_name) = <<>>
                                             THEN "texture_name"
                                             ELSE "resolution"]
                /\ scene' = u.scene
                /\ images' = g.images
                /\ textures_to_create' = g.textures_to_create
           ELSE /\ bk' = [bk EXCEPT !.pc = "prepare",
                                    !.selected_materials = SelectedMaterials,
                                    !.mi = 1]
                /\ scene' = u.scene
                /\ images' = g.images
                /\ textures_to_create' = g.textures_to_create
    /\ UNCHANGED <<simplifier, exp, exported>>
    /\ UNCHANGED <<engine, cycles_device, material_slots, material_group,
                   node_trees, bakes, saved>>
    /\ UNCHANGED <<gpc, gret, imagesHist>>
    /\ UNCHANGED <<expandVars, bakerVars, testerVars,
                   layoutVars>>

\* bake_textures: one turn of the loop over the materials
bake_prepare_new_nodes ==
    /\ bk.pc = "prepare"
    /\ bk.mi <= Len(bk.selected_materials)
    /\ LET r == prepare_new_nodes([trees |-> node_trees, tn |-> bk.texture_nodes,
                                   new |-> bk.new, old |-> bk.old],
                                  bk.selected_materials[bk.mi], bk.mi)
       IN  /\ node_trees' = r.trees
           /\ bk' = [bk EXCEPT
                 !.pc = CASE r.result = "true"   -> "prepare"
                          [] r.result = "false"  -> "failed"
                          [] r.result = "raised" -> "raised",
                 !.fail = CASE r.result = "true"   -> @
                            [] r.result = "false"  -> "missing_output"
                            [] r.result = "raised" -> "unlinked_output",
                 !.mi = @ + 1,
                 !.texture_nodes = r.tn,
                 !.new = r.new,
                 !.old = r.old]
    /\ UNCHANGED <<engine, cycles_device, material_slots, material_group,
                   bakes, saved>>
    /\ UNCHANGED <<expandVars, bakerVars, texVars, testerVars, exportVars,
                   layoutVars>>

\* bake_textures: remember the render engine, switch to Cycles and to the
\* preferred device
bake_set_renderer ==
    /\ bk.pc = "prepare"
    /\ bk.mi > Len(bk.selected_materials)
    /\ bk' = [bk EXCEPT !.pc = "bake", !.renderer_used = engine, !.ci = 1]
    /\ engine' = "CYCLES"
    /\ cycles_device' = device
    /\ UNCHANGED <<material_slots, material_group, node_trees, bakes, saved>>
    /\ UNCHANGED <<expandVars, bakerVars, texVars, testerVars, exportVars,
                   layoutVars>>

\* the finally clause of bake_textures:
\* bpy.context.scene.render.engine = renderer_used
RendererKept(renderer_used) == "CYCLES"
RendererRestored(renderer_used) == renderer_used

\* bake_textures: one turn of the loop over the map names.  bpy.ops.object.bake
\* succeeds or raises RuntimeError; then the except clause cleans up, the
\* finally clause puts the render engine back and bake_textures returns False.
bake_channel ==
    /\ bk.pc = "bake"
    /\ bk.ci <= Len(order)
    /\ LET active == set_nodes_as_active(node_trees, bk.texture_nodes,
                                         order[bk.ci], 1)
       IN  \E baked \in BOOLEAN :
              IF baked
              THEN /\ node_trees' = active
                   /\ bakes' = Append(bakes,
                         [map_name |-> order[bk.ci],
                          active   |-> [m \in Range(bk.texture_nodes.keys) |->
                                           active[m].active],
                          engine   |-> engine,
                          device   |-> cycles_device])
                   /\ bk' = [bk EXCEPT !.ci = @ + 1,
                                       !.events = Append(@, "bake")]
                   /\ engine' = engine
              ELSE /\ node_trees' = bake_clean_up(active, bk.texture_nodes).trees
                   /\ bakes' = bakes
                   /\ bk' = [bk EXCEPT !.pc = "failed", !.fail = "runtime_error",
                                       !.events = Append(@, "remove"),
                                       !.reused = bake_clean_up(active,
                                                    bk.texture_nodes).raised]
                   /\ engine' = RendererRestored(bk.renderer_used)
    /\ UNCHANGED <<cycles_device, material_slots, material_group, saved>>
    /\ UNCHANGED <<expandVars, bakerVars, texVars, testerVars, exportVars,
                   layoutVars>>

\* the image files save_textures writes: one per texture node of the first
\* node tree
SavedImages ==
    LET first == bk.texture_nodes.keys[1]
        e     == bk.texture_nodes.dict[first]
    IN  {ImageName(texture_name, e[i].key) \o <<".","p","n","g">> :
            i \in {j \in DOMAIN e : e[j].key \in textures_to_create}}

\* bake_textures after the loop: the finally clause puts the render engine
\* back; save_textures creates the two directories, each of which may fail,
\* and saves the images; when it fails the nodes are cleaned up and
\* bake_textures goes on
bake_save_textures ==
    /\ bk.pc = "bake"
    /\ bk.ci > Len(order)
    /\ engine' = RendererRestored(bk.renderer_used)
    /\ \E obj_dir \in BOOLEAN, texture_dir \in BOOLEAN :
          IF obj_dir /\ texture_dir
          THEN /\ saved' = saved \cup SavedImages
               /\ node_trees' = node_trees
               /\ bk' = [bk EXCEPT !.pc = "connect_new",
                                   !.events = Append(@, "save")]
          ELSE LET r == bake_clean_up(node_trees, bk.texture_nodes)
               IN  /\ saved' = saved
                   /\ node_trees' = r.trees
                   /\ bk' = [bk EXCEPT !.pc = IF r.raised THEN "raised"
                                                          ELSE "connect_new",
                                       !.fail = "directory",
                                       !.events = Append(@, "remove"),
                                       !.reused = r.raised]
    /\ UNCHANGED <<cycles_device, material_slots, material_group, bakes>>
    /\ UNCHANGED <<expandVars, bakerVars, texVars, testerVars, exportVars,
                   layoutVars>>

\* bake_textures: the queued "new" connections and, with export_after, the
\* call of the export operator
bake_connect_new ==
    /\ bk.pc = "connect_new"
    /\ LET r == IF use_texture \/ export_after
                THEN ConnectAll(node_trees, bk.new, 1)
                ELSE [raised |-> FALSE, trees |-> node_trees,
                      dead |-> FALSE]
           ev == IF use_texture \/ export_after
                 THEN Append(bk.events, "new") ELSE bk.events
       IN  /\ node_trees' = r.trees
           /\ IF r.raised
              THEN /\ bk' = [bk EXCEPT !.pc = "raised",
                                       !.fail = IF @ = "" THEN "connect" ELSE @,
                                       !.events = ev,
                                       !.reused = r.dead]
                   /\ exp' = exp
              ELSE IF export_after
              THEN /\ bk' = [bk EXCEPT !.pc = "exporting",
                                       !.events = Append(ev, "export")]
                   /\ exp' = [ExportIdle EXCEPT !.pc = "called"] @@ [pre |-> scene]
              ELSE /\ bk' = [bk EXCEPT !.pc = "finish", !.events = ev]
                   /\ exp' = exp
    /\ UNCHANGED <<scene, simplifier, exported>>
    /\ UNCHANGED <<engine, cycles_device, material_slots, material_group,
                   bakes, saved>>
    /\ UNCHANGED <<expandVars, bakerVars, texVars, testerVars,
                   layoutVars>>

\* bpy.ops.simplifier.export() comes back: an operator that reported an
\* error or raised makes the call raise RuntimeError
bake_export_return ==
    /\ bk.pc = "exporting"
    /\ exp.pc \in {"finished", "cancelled", "raised"}
    /\ bk' = IF exp.pc = "finished"
             THEN [bk EXCEPT !.pc = "finish"]
             ELSE [bk EXCEPT !.pc = "raised",
                             !.fail = IF @ = "" THEN "export" ELSE @]
    /\ UNCHANGED <<engine, cycles_device, material_slots, material_group,
                   node_trees, bakes, saved>>
    /\ UNCHANGED <<expandVars, bakerVars, texVars, testerVars, exportVars,
                   layoutVars>>

\* bake_textures to its end: the queued "old" connections, clean_up unless
\* the textures are to be used, removal of the glossy node
bake_finish ==
    /\ bk.pc = "finish"
    /\ LET old == IF (use_texture \/ export_after) /\ ~use_texture
                  THEN ConnectAll(node_trees, bk.old, 1)
                  ELSE [raised |-> FALSE, trees |-> node_trees,
                      dead |-> FALSE]
           all == IF old.raised \/ use_texture THEN old
                  ELSE bake_clean_up(old.trees, bk.texture_nodes)
           gl  == IF ~all.raised /\ use_texture
                     /\ Lower(T_GLOSSY) \in textures_to_create
                  THEN bake_clean_up_specific(all.trees, bk.texture_nodes,
                                              Lower(T_GLOSSY))
                  ELSE all
           e1  == IF (use_texture \/ export_after) /\ ~use_texture
                  THEN Append(bk.events, "old") ELSE bk.events
           e2  == IF old.raised THEN e1
                  ELSE IF ~use_texture \/ Lower(T_GLOSSY) \in textures_to_create
                  THEN Append(e1, "remove") ELSE e1
       IN  /\ node_trees' = gl.trees
           /\ bk' = IF gl.raised
                    THEN [bk EXCEPT !.pc = "raised",
                                    !.fail = IF @ = "" THEN "dead_node" ELSE @,
                                    !.events = e2,
                                    !.reused = IF old.raised THEN old.dead
                                                             ELSE TRUE]
                    ELSE [bk EXCEPT !.pc = "finished", !.events = e2]
    /\ UNCHANGED <<engine, cycles_device, material_slots, material_group,
                   bakes, saved>>
    /\ UNCHANGED <<expandVars, bakerVars, texVars, testerVars, exportVars,
                   layoutVars>>

\* execute after bake_textures returned False: clean_up, return CANCELLED
bake_failed ==
    /\ bk.pc = "failed"
    /\ LET r == bake_clean_up(node_trees, bk.texture_nodes)
       IN  /\ node_trees' = r.trees
           /\ bk' = [bk EXCEPT !.pc = IF r.raised THEN "raised" ELSE "cancelled",
                                    !.events = Append(@, "remove"),
                                    !.reused = r.raised]
    /\ UNCHANGED <<engine, cycles_device, material_slots, material_group,
                   bakes, saved>>
    /\ UNCHANGED <<expandVars, bakerVars, texVars, testerVars, exportVars,
                   layoutVars>>

---------------------------------------------------------------------------
(* export_simplifier.py: unwrap() called on its own                        *)

\* one call of unwrap(), of up to MaxRuns
unwrap_call ==
    /\ bk.pc = "off" /\ exp.pc = "off"
    /\ scene.unwraps < MaxRuns
    /\ scene' = unwrap(scene).scene
    /\ UNCHANGED <<simplifier, exp, exported>>
    /\ UNCHANGED <<bakeVars, expandVars, bakerVars, texVars, testerVars,
                   layoutVars>>

\* the first statement of execute of the bake and of the export operator:
\* context.scene.model_unwrapped = False
operator_start ==
    /\ bk.pc = "off" /\ exp.pc = "off"
    /\ scene' = [scene EXCEPT !.model_unwrapped = FALSE]
    /\ UNCHANGED <<simplifier, exp, exported>>
    /\ UNCHANGED <<bakeVars, expandVars, bakerVars, texVars, testerVars,
                   layoutVars>>

---------------------------------------------------------------------------
(* export_simplifier.py: SIMPLIFIER_OT_update_material_list                *)

\* old_selection: material name -> the selected flag of the last entry of
\* the list with that name
OldSelection(group) ==
    [n \in {group[i].material : i \in DOMAIN group} |->
        LET last == CHOOSE i \in DOMAIN group :
                       /\ group[i].material = n
                       /\ \A j \in DOMAIN group :
                             group[j].material = n => j <= i
        IN  group[last].selected]

\* the list execute builds: one item per material slot of the active object
RefreshedGroup(slots, old_selection) ==
    [i \in DOMAIN slots |->
        [material |-> slots[i],
         selected |-> /\ slots[i] \in DOMAIN old_selection
                      /\ old_selection[slots[i]]]]

\* execute
update_material_list ==
    /\ bk.pc = "off"
    /\ LET old_selection == OldSelection(material_group)
       IN  material_group' = IF scene.active = None THEN <<>>
                             ELSE RefreshedGroup(material_slots, old_selection)
    /\ UNCHANGED <<engine, cycles_device, material_slots, node_trees, bk,
                   bakes, saved>>
    /\ UNCHANGED <<expandVars, bakerVars, texVars, testerVars, exportVars,
                   layoutVars>>

---------------------------------------------------------------------------
(* export_simplifier.py: the node layout of prepare_new_nodes              *)

\* a node location
Loc(x, y) == [x |-> x, y |-> y]

\* the location nodes.new gives a node
DefaultLocation == Loc(0, 0)

\* the loop of get_max_y_node_coordinate over nodes[i..]: the greatest y
\* among the nodes whose x lies strictly between x_out - 500 and x_out,
\* starting from max_y_coord
RECURSIVE MaxYInWindow(_, _, _, _)
MaxYInWindow(x_out, nodes, i, max_y_coord) ==
    IF i > Len(nodes) THEN max_y_coord
    ELSE MaxYInWindow(x_out, nodes, i + 1,
            IF /\ x_out - 500 < nodes[i].x /\ nodes[i].x < x_out
               /\ nodes[i].y > max_y_coord
            THEN nodes[i].y ELSE max_y_coord)

\* SIMPLIFIER_OT_bake.get_max_y_node_coordinate
get_max_y_node_coordinate(output_loc, nodes) ==
    MaxYInWindow(output_loc.x, nodes, 1, 0) + 1000

\* the locations prepare_new_nodes gives the nodes it creates: the texture
\* nodes are created at the default location, and with use_texture or
\* export_after and a map requested the principled node, the normal map
\* node and the diffuse, roughness, normal and alpha texture nodes are
\* moved.  nodes is the tree as get_max_y_node_coordinate sees it: the output
\* node, the other nodes, and the texture nodes just created.
NodeLocations(ttc, wired, output_loc, others) ==
    LET created == [k \in ttc |-> DefaultLocation]
        nodes   == <<output_loc>> \o others
                     \o [i \in 1..Cardinality(ttc) |-> DefaultLocation]
        max_y_coord == get_max_y_node_coordinate(output_loc, nodes)
        moved ==
          (IF Lower(T_DIFFUSE) \in ttc
           THEN Lower(T_DIFFUSE) :> Loc(-400, max_y_coord + 300)
           ELSE EmptyDict) @@
          (IF Lower(T_ROUGHNESS) \in ttc
           THEN Lower(T_ROUGHNESS) :> Loc(-400, max_y_coord + 20)
           ELSE EmptyDict) @@
          (IF Lower(T_NORMAL) \in ttc
           THEN (Key_normal_map_node :> Loc(-300, max_y_coord - 600)) @@
                (Lower(T_NORMAL) :> Loc(-700, max_y_coord - 600))
           ELSE EmptyDict) @@
          (IF Lower(T_ALPHA) \in ttc
           THEN Lower(T_ALPHA) :> Loc(-400, max_y_coord - 300)
           ELSE EmptyDict)
    IN  IF wired /\ ttc # {}
        THEN (Key_principled :> Loc(-100, max_y_coord + 200)) @@ moved @@ created
        ELSE created

\* prepare_new_nodes on a tree with an output node: where its nodes land
place_new_nodes ==
    /\ lpc = "idle"
    /\ new_locations' = NodeLocations(textures_to_create,
                                      use_texture \/ export_after,
                                      output_location, locations)
    /\ lpc' = "placed"
    /\ UNCHANGED <<output_location, locations>>
    /\ UNCHANGED <<expandVars, bakerVars, texVars, testerVars, sceneVars>>

---------------------------------------------------------------------------
(* Specifications                                                          *)

ExpandInert ==
    /\ basename = <<>> /\ argname = "" /\ values = <<>>
    /\ additional_args = [isNone |-> TRUE, args |-> EmptyDict]
    /\ d = EmptyDict /\ dicts = EmptyDict /\ xpc = "off"

TexInert ==
    /\ images = EmptyDict /\ texture_name = <<>> /\ width = 1 /\ height = 1
    /\ bake_types = {} /\ order = <<>> /\ textures_to_create = {}
    /\ gpc = "off" /\ gret = FALSE /\ imagesHist = <<>>

TesterInert ==
    /\ t_objects = <<>> /\ t_selected = {} /\ t_active = <<>> /\ t_mode = "OBJECT"
    /\ t_filepath = FALSE /\ export_enum = "ALL" /\ export_options = EmptyDict
    /\ tester = [pc |-> "off", fi |-> 1, current_mode |-> "OBJECT", active_obj |-> <<>>]
    /\ calls = EmptyBag

ExportInert ==
    /\ scene = [objects |-> {}, selected |-> {}, active |-> None,
                mode |-> "OBJECT", location |-> EmptyDict, pending |-> EmptyDict,
                uv |-> EmptyDict, model_unwrapped |-> FALSE, projections |-> 0,
                unwraps |-> 0]
    /\ simplifier = [format |-> Str_FBX, gltf_format |-> "GLB",
                     unwrap |-> FALSE, bake |-> FALSE]
    /\ exp = [ExportIdle EXCEPT !.pc = "off"] @@ [pre |-> scene]
    /\ exported = <<>>

\* what a bake finds when it is called
BakePre ==
    [engine |-> engine, device |-> cycles_device, scene |-> scene,
     images |-> images, node_trees |-> node_trees]

BakeInert ==
    /\ use_texture = FALSE /\ export_after = FALSE /\ device = "CPU"
    /\ engine = "BLENDER_EEVEE" /\ cycles_device = "CPU"
    /\ material_slots = <<>> /\ material_group = <<>>
    /\ node_trees = EmptyDict
    /\ bk = BakeIdle @@ [pre |-> BakePre]
    /\ bakes = <<>> /\ saved = {}

LayoutInert ==
    /\ output_location = Loc(0, 0) /\ locations = <<>>
    /\ new_locations = EmptyDict /\ lpc = "off"

\* ---- expand_options applied to each input ----
InitExpand ==
    /\ LayoutInert
    /\ TexInert /\ TesterInert /\ ExportInert /\ BakeInert
    /\ basename \in ExpandBasenames
    /\ argname \in ExpandArgnames
    /\ values \in SeqsUpTo(ExpandValues, MaxValues)
    /\ additional_args \in ExpandAdditional
    /\ d = EmptyDict /\ dicts = EmptyDict /\ xpc = "idle"

NextExpand == expand_options

SpecExpand == InitExpand /\ [][NextExpand]_vars

\* ---- generate_texture called up to MaxRuns times on the same settings ----
\* bpy.data.images holds an unrelated image and, for each requested type, no
\* image, or one of any size, under the name the call derives.
InitTex ==
    /\ LayoutInert
    /\ ExpandInert /\ TesterInert /\ ExportInert
    /\ texture_name \in {<<>>, Str_blank, Str_t}
    /\ width \in Dims /\ height \in Dims
    /\ bake_types \in {S \in SUBSET BakeTypes : Cardinality(S) <= MaxTypes}
    /\ order \in Perms({Lower(t) : t \in bake_types})
    /\ \E have \in SUBSET {Lower(t) : t \in bake_types} :
          \E size \in [have -> Dims \X Dims] :
             images = (Str_other :> [w |-> 1, h |-> 1]) @@
                      [n \in {ImageName(Str_t, m) : m \in have} |->
                          LET m == CHOOSE m \in have : ImageName(Str_t, m) = n
                          IN  [w |-> size[m][1], h |-> size[m][2]]]
    /\ textures_to_create = {}
    /\ gpc = "idle" /\ gret = FALSE /\ imagesHist = <<images>>
    /\ BakeInert

NextTex == generate_texture

SpecTex == InitTex /\ [][NextTex]_vars

\* ---- one run of the batch exporter on a scene of up to MaxObjects objects ----
InitTester ==
    /\ LayoutInert
    /\ ExpandInert /\ TexInert /\ ExportInert /\ BakeInert
    /\ \E n \in 0..MaxObjects : \E k \in [1..n -> ObjectKinds] :
          t_objects = [i \in 1..n |-> MakeObject(i, k[i])]
    /\ t_selected = {}
    /\ t_active \in {<<>>} \cup {t_objects[i].name : i \in DOMAIN t_objects \cap {1}}
    /\ t_mode \in IF t_active = <<>> THEN {"OBJECT"} ELSE {"OBJECT", "EDIT"}
    /\ t_filepath \in BOOLEAN
    /\ export_enum \in {"ALL", "MATERIALS", "MODELS"}
    /\ export_options = EmptyDict
    /\ tester = [pc |-> "idle", fi |-> 1, current_mode |-> "OBJECT", active_obj |-> <<>>]
    /\ calls = EmptyBag

NextTester == tester_execute \/ tester_perform_export \/ tester_restore

SpecTester == InitTester /\ [][NextTester]_vars

\* ---- one call of the export operator on a scene of MaxSelectable meshes ----
\* a scene of the user: every object away from the origin, with rotation
\* and scale not applied; the objects have UV layouts of their own, or none
UserScenes ==
    {[objects |-> Originals, selected |-> sel, active |-> act, mode |-> m,
      location |-> [o \in Originals |-> 1],
      pending |-> [o \in Originals |-> {"rotation", "scale"}],
      uv |-> [o \in Originals |-> layout],
      model_unwrapped |-> mu,
      projections |-> 0, unwraps |-> 0] :
        sel \in SUBSET Originals, act \in Originals \cup {None},
        m \in {"OBJECT", "EDIT"}, layout \in {"user", "none"}, mu \in BOOLEAN}

InitExport ==
    /\ LayoutInert
    /\ ExpandInert /\ TexInert /\ TesterInert
    /\ scene \in {s \in UserScenes : s.active = None => s.mode = "OBJECT"}
    /\ simplifier \in [format : {Str_FBX, Str_OBJ, Str_GLTF},
                       gltf_format : {"GLB", "GLTF_SEPARATE", "GLTF_EMBEDDED"},
                       unwrap : BOOLEAN, bake : {FALSE}]
    /\ exp = [ExportIdle EXCEPT !.pc = "called"] @@ [pre |-> scene]
    /\ exported = <<>>
    /\ BakeInert

NextExport ==
    \/ export_execute
    \/ export_duplicate
    \/ export_create_subdir
    \/ export_unreal
    \/ export_clean_up
    \/ export_return

SpecExport == InitExport /\ [][NextExport]_vars

\* ---- one call of the bake operator ----
\* What execute reads before it calls bake_textures: the scene, the two
\* switches of the panel and the texture name.
BakeScenes ==
    {s \in UserScenes :
        /\ s.mode = "OBJECT"
        /\ s.selected \in {{}, {SceneNames[1]}, Originals}
        /\ s.active \in {None, SceneNames[1]}}

\* the material slots of the active object: up to MaxMaterials materials,
\* possibly the same one in several slots
MaterialSlots ==
    {sl \in SeqsUpTo(Materials, MaxMaterials) :
        \A i \in DOMAIN sl : i = 1 => sl[i] = "m1"}

\* material_group as update_material_list builds it: one entry per slot
MaterialGroup(slots, sel) ==
    [i \in DOMAIN slots |-> [material |-> slots[i], selected |-> sel[i]]]

\* a call that gets as far as bake_textures: one object, selected and
\* active, with a UV layout, unwrap off and every listed material ticked.
\* The map names, the two options, the node trees and the render engine
\* vary; the scene's device differs from the preferred one.
InitBakeRun ==
    /\ scene \in {s \in BakeScenes : /\ s.selected = {SceneNames[1]}
                                     /\ s.active = SceneNames[1]
                                     /\ s.uv[s.active] = "user"
                                     /\ ~s.model_unwrapped}
    /\ simplifier = [format |-> Str_FBX, gltf_format |-> "GLB",
                     unwrap |-> FALSE, bake |-> TRUE]
    /\ texture_name = Str_t
    /\ bake_types \in {S \in SUBSET BakeTypes : Cardinality(S) <= MaxTypes}
    /\ use_texture \in BOOLEAN /\ export_after \in BOOLEAN
    /\ engine \in {"BLENDER_EEVEE", "CYCLES"}
    /\ cycles_device = "GPU"
    /\ material_slots \in MaterialSlots \ {<<>>}
    /\ material_group = MaterialGroup(material_slots,
                                      [i \in DOMAIN material_slots |-> TRUE])
    /\ \E kinds \in [Range(material_slots) -> TreeKinds] :
          node_trees = [m \in Materials |->
                          IF m \in DOMAIN kinds THEN MakeTree(m, kinds[m])
                          ELSE MakeTree(m, [has_output |-> TRUE, surface |-> "old"])]

\* a call with any of the scenes and settings the checks of execute look
\* at, on one material with a complete node tree and one map name
InitBakeChecks ==
    /\ scene \in BakeScenes
    /\ simplifier \in [format : {Str_FBX}, gltf_format : {"GLB"},
                       unwrap : BOOLEAN, bake : BOOLEAN]
    /\ texture_name \in {Str_blank, Str_t}
    /\ bake_types = {T_DIFFUSE}
    /\ use_texture = FALSE /\ export_after \in BOOLEAN
    /\ engine = "BLENDER_EEVEE"
    /\ cycles_device \in {"CPU", "GPU"}
    /\ material_slots \in {<<>>, <<"m1">>}
    /\ \E sel \in [DOMAIN material_slots -> BOOLEAN] :
          material_group = MaterialGroup(material_slots, sel)
    /\ node_trees = [m \in Materials |->
                       MakeTree(m, [has_output |-> TRUE, surface |-> "old"])]

InitBake ==
    /\ LayoutInert
    /\ ExpandInert /\ TesterInert
    /\ (InitBakeRun \/ InitBakeChecks)
    /\ width = 1 /\ height = 1
    /\ order \in Perms({Lower(t) : t \in bake_types})
    /\ device = "CPU"
    /\ images = (Str_other :> [w |-> 1, h |-> 1])
    /\ textures_to_create = {}
    /\ gpc = "off" /\ gret = FALSE /\ imagesHist = <<>>
    /\ exp = ExportIdle @@ [pre |-> scene]
    /\ exported = <<>>
    /\ bk = [BakeIdle EXCEPT !.pc = "called"] @@ [pre |-> BakePre]
    /\ bakes = <<>> /\ saved = {}

NextBake ==
    \/ bake_execute
    \/ bake_prepare_new_nodes
    \/ bake_set_renderer
    \/ bake_channel
    \/ bake_save_textures
    \/ bake_connect_new
    \/ bake_export_return
    \/ bake_finish
    \/ bake_failed
    \/ export_execute
    \/ export_duplicate
    \/ export_create_subdir
    \/ export_unreal
    \/ export_clean_up
    \/ export_return

SpecBake == InitBake /\ [][NextBake]_vars

\* ---- the material list refreshed ----
\* the list as earlier refreshes and the user's ticks left it, and the
\* material slots the active object has now
MaterialLists ==
    SeqsUpTo([material : Materials, selected : BOOLEAN], MaxMaterials)

InitRefresh ==
    /\ LayoutInert
    /\ ExpandInert /\ TexInert /\ TesterInert
    /\ scene \in {s \in BakeScenes : /\ s.selected = {}
                                     /\ s.uv[SceneNames[1]] = "user"
                                     /\ ~s.model_unwrapped}
    /\ simplifier = [format |-> Str_FBX, gltf_format |-> "GLB",
                     unwrap |-> FALSE, bake |-> FALSE]
    /\ exp = [ExportIdle EXCEPT !.pc = "off"] @@ [pre |-> scene]
    /\ exported = <<>>
    /\ use_texture = FALSE /\ export_after = FALSE /\ device = "CPU"
    /\ engine = "BLENDER_EEVEE" /\ cycles_device = "CPU"
    /\ material_slots \in SeqsUpTo(Materials, MaxMaterials)
    /\ material_group \in MaterialLists
    /\ node_trees = EmptyDict
    /\ bk = BakeIdle @@ [pre |-> BakePre]
    /\ bakes = <<>> /\ saved = {}

NextRefresh == update_material_list

SpecRefresh == InitRefresh /\ [][NextRefresh]_vars

\* ---- unwrap() called up to MaxRuns times, operators starting in between ----
InitUnwrap ==
    /\ LayoutInert
    /\ ExpandInert /\ TexInert /\ TesterInert
    /\ scene \in BakeScenes
    /\ simplifier = [format |-> Str_FBX, gltf_format |-> "GLB",
                     unwrap |-> TRUE, bake |-> FALSE]
    /\ exp = [ExportIdle EXCEPT !.pc = "off"] @@ [pre |-> scene]
    /\ exported = <<>>
    /\ BakeInert

NextUnwrap == unwrap_call \/ operator_start

SpecUnwrap == InitUnwrap /\ [][NextUnwrap]_vars

\* ---- prepare_new_nodes laying out its nodes in a tree of up to MaxNodes
\* ---- nodes beside the output node ----
MaxNodes == 2

\* where the nodes of the user are: inside and outside the window left of
\* the output node, below and above the origin
LayoutLocations == {Loc(x, y) : x \in {-700, -400, 100}, y \in {-500, 2000}}

OutputLocations == {Loc(x, y) : x \in {0, 300}, y \in {-500, 2000}}

InitLayout ==
    /\ ExpandInert /\ TesterInert /\ ExportInert
    /\ images = EmptyDict /\ texture_name = Str_t /\ width = 1 /\ height = 1
    /\ bake_types \in {S \in SUBSET BakeTypes : Cardinality(S) <= MaxTypes}
    /\ order = CHOOSE o \in Perms({Lower(t) : t \in bake_types}) : TRUE
    /\ textures_to_create = {Lower(t) : t \in bake_types}
    /\ gpc = "off" /\ gret = FALSE /\ imagesHist = <<>>
    /\ use_texture \in BOOLEAN /\ export_after = FALSE /\ device = "CPU"
    /\ engine = "BLENDER_EEVEE" /\ cycles_device = "CPU"
    /\ material_slots = <<>> /\ material_group = <<>>
    /\ node_trees = EmptyDict
    /\ bk = BakeIdle @@ [pre |-> BakePre]
    /\ bakes = <<>> /\ saved = {}
    /\ output_location \in OutputLocations
    /\ locations \in SeqsUpTo(LayoutLocations, MaxNodes)
    /\ new_locations = EmptyDict /\ lpc = "idle"

NextLayout == place_new_nodes

SpecLayout == InitLayout /\ [][NextLayout]_vars

---------------------------------------------------------------------------
(* Claims about expand_options                                             *)

\* the last value of the list whose option name is k
LastValueNamed(k) ==
    values[SetMax({i \in DOMAIN values :
                     basename \o <<"_">> \o Lower(values[i]) = k})]

\* every option-set has an argument dict of its own
OwnDicts == \A k1, k2 \in DOMAIN d : k1 # k2 => d[k1] # d[k2]

\* {argname: v} united with additional_args
United(v) ==
    IF additional_args.isNone THEN (argname :> v)
    ELSE additional_args.args @@ (argname :> v)

\* C5 as stated: the result has exactly one entry per value of the list, keyed
\* basename + "_" + lowercase(value), whose dict is {argname: value} united
\* with additional_args, and no two entries share a dict.
C5_AsStated ==
    xpc = "returned" =>
        /\ DOMAIN d = {basename \o <<"_">> \o Lower(v) : v \in Range(values)}
        /\ Cardinality(DOMAIN d) = Cardinality(Range(values))
        /\ \A v \in Range(values) :
              dicts[d[basename \o <<"_">> \o Lower(v)]] = United(v)
        /\ OwnDicts

\* C5 amended: the result has exactly one entry per distinct lowercased value,
\* keyed basename + "_" + lowercase(value); its dict is {argname: v} updated with
\* additional_args, v being the last value of the list with that lowercase
\* form; no two entries share a dict.
C5_Amended ==
    xpc = "returned" =>
        /\ DOMAIN d = {basename \o <<"_">> \o Lower(v) : v \in Range(values)}
        /\ \A k \in DOMAIN d : dicts[d[k]] = United(LastValueNamed(k))
        /\ DOMAIN dicts = Range(d)
        /\ OwnDicts

\* the call of the spec's example, and a call where two values differ only in case
C5_Witness ==
    /\ xpc = "returned"
    /\ values = <<Str_AUTO, Str_Auto>>
    /\ basename = Str_scale
    /\ ~additional_args.isNone /\ DOMAIN additional_args.args # {}
    /\ Cardinality(DOMAIN d) = 1

C5_Example ==
    (xpc = "returned" /\ basename = Str_scale /\ argname = "global_scale"
        /\ values = <<Str_2_0>> /\ additional_args.isNone)
    => /\ DOMAIN d = {<<"s","c","a","l","e","_","2",".","0">>}
       /\ \A k \in DOMAIN d : dicts[d[k]] = ("global_scale" :> Str_2_0)

---------------------------------------------------------------------------
(* Claims about texture allocation                                         *)

\* bpy.data.images when the last call of generate_texture started
ImagesAtCall == imagesHist[Len(imagesHist) - 1]

\* a requested type whose derived name is taken by an image of another size
ResolutionConflict ==
    \E t \in bake_types :
        LET n == texture_name \o <<"_">> \o Lower(t)
        IN  /\ n \in DOMAIN ImagesAtCall
            /\ (ImagesAtCall[n].w # width \/ ImagesAtCall[n].h # height)

\* C3 as stated: when a requested channel's derived name collides with an image
\* of another width or height, generate_texture fails and bpy.data.images is
\* exactly what it was before the call.
C3_AsStated ==
    (gpc = "returned" /\ ResolutionConflict) =>
        (~gret /\ images = ImagesAtCall)

\* C4: a second (and any later) call of generate_texture with the same texture
\* name, types, width and height leaves bpy.data.images as the first call left
\* it.
C4_Idempotent ==
    \A i \in 3..Len(imagesHist) : imagesHist[i] = imagesHist[2]

\* two successful calls, the first of which allocated images for two types
C4_Witness ==
    /\ gpc = "returned" /\ gret
    /\ Len(imagesHist) = 3
    /\ Cardinality(bake_types) = 2
    /\ Cardinality(DOMAIN imagesHist[2]) = Cardinality(DOMAIN imagesHist[1]) + 2

---------------------------------------------------------------------------
(* Claims about the batch exporter                                         *)

VisibleMeshes == {o \in Range(t_objects) : o.type = "MESH" /\ o.visible}

\* the visible meshes whose first collection is 'Separate_objects'
SeparateMeshes == {o \in VisibleMeshes : o.first_is_separate}

\* Ok_f: the option-sets the selected table holds for format f
Ok(f) == IF f \in DOMAIN export_options THEN Cardinality(export_options[f]) ELSE 0

RECURSIVE SumOk(_)
SumOk(n) == IF n = 0 THEN 0 ELSE SumOk(n - 1) + Ok(Formats[n])

\* how often the exporter was called on a target file with a selection
CallCount(f, name, a, sel) ==
    CopiesIn([format |-> f, filepath |-> TargetFile(f, name, a), selection |-> sel],
             calls)

TargetFiles == {c.filepath : c \in BagToSet(calls)}

\* C6 as stated: a finished batch export of a scene with N visible mesh objects
\* has made exactly N * (sum over the formats of Ok_f) exporter calls, each to
\* a target file of its own.
C6_AsStated ==
    tester.pc = "finished" =>
        /\ BagCardinality(calls) = Cardinality(VisibleMeshes) * SumOk(Len(Formats))
        /\ Cardinality(TargetFiles) = BagCardinality(calls)

\* the objects that get a file of their own: every visible mesh outside
\* 'Separate_objects', and one for all the visible meshes of that collection
ExportedUnits ==
    Cardinality(VisibleMeshes \ SeparateMeshes)
        + (IF SeparateMeshes = {} THEN 0 ELSE 1)

\* C6 amended: with N visible mesh objects, k of which have 'Separate_objects'
\* as their first collection, the exporter calls made once the first n formats
\* are walked number exactly (N - k + 1) * (Ok_1 + ... + Ok_n) when k >= 1 and
\* N * (Ok_1 + ... + Ok_n) when k = 0, each to a target file of its own.
C6_Amended ==
    tester.pc \in {"walk", "finished", "raised"} =>
        /\ BagCardinality(calls) = ExportedUnits * SumOk(tester.fi - 1)
        /\ Cardinality(TargetFiles) = BagCardinality(calls)

\* a finished run over three visible meshes, two of them in 'Separate_objects'
C6_Witness ==
    /\ tester.pc = "finished"
    /\ Cardinality(VisibleMeshes) = 3
    /\ Cardinality(SeparateMeshes) = 2
    /\ BagCardinality(calls) = 2 * SumOk(Len(Formats))
    /\ SumOk(Len(Formats)) > 0

---------------------------------------------------------------------------
(* Claims about the export operator                                        *)

\* the export operator has returned, FINISHED or CANCELLED
ExportReturned == exp.pc \in {"finished", "cancelled"}

\* C2: after any call of the export operator that returns (success, empty
\* selection, directory failure) the active object, the whole set of selected
\* objects, however many, and the interaction mode are what they were before
\* the call.
C2_AsStated ==
    ExportReturned =>
        /\ scene.active = exp.pre.active
        /\ scene.selected = exp.pre.selected
        /\ scene.mode = exp.pre.mode

\* C8: after the export operator returns (success, or directory failure
\* after the duplication) the scene holds the objects it held before, every
\* original object has the location, the transform and the UV layout it had:
\* origin reset, transform application and unwrap touched only the copies,
\* and every copy is deleted.
C8_AsStated ==
    ExportReturned =>
        /\ scene.objects = exp.pre.objects
        /\ \A o \in exp.pre.objects :
              /\ scene.location[o] = exp.pre.location[o]
              /\ scene.pending[o] = exp.pre.pending[o]
              /\ scene.uv[o] = exp.pre.uv[o]

---------------------------------------------------------------------------
(* Claims about the bake operator                                          *)

\* the bake operator has left execute: FINISHED, CANCELLED or an exception
BakeExited == bk.pc \in {"finished", "cancelled", "raised"}

\* the nodes the operator created that are still in a node tree
CreatedNodes == UNION {node_trees[m].nodes : m \in DOMAIN node_trees}

\* C1: when use_texture is off and the operator exits after a failure (a
\* missing output node, a RuntimeError of a channel bake, a directory that
\* cannot be created), no node tree holds a node the operator created.
C1_AsStated ==
    (/\ BakeExited
     /\ ~use_texture
     /\ bk.fail \in {"missing_output", "runtime_error", "directory"})
        => CreatedNodes = {}

\* C9: on every exit of a bake (success, RuntimeError, missing output node,
\* save failure, exception) scene.render.engine is what it was before the
\* call.
C9_EngineRestored == BakeExited => engine = bk.pre.engine

\* a bake that left on a RuntimeError of bpy.ops.object.bake, after a
\* successful bake of another channel under Cycles, in a scene that rendered
\* with another engine
C9_Witness ==
    /\ BakeExited
    /\ bk.fail = "runtime_error"
    /\ bakes # <<>>
    /\ bakes[1].engine = "CYCLES"
    /\ bk.pre.engine = "BLENDER_EEVEE"
    /\ engine = "BLENDER_EEVEE"

\* C10: on every exit of a bake scene.cycles.device is what it was before
\* the call, also when baker.device differs from it.
C10_AsStated == BakeExited => cycles_device = bk.pre.device

\* the checks of execute that cancel a bake: the selection, the export
\* directory, the material list, the texture name
BakeRefused ==
    /\ bk.pc = "cancelled"
    /\ bk.fail \in {"selection", "export_dir", "no_materials", "texture_name"}

\* C11: when a check cancels a bake (no single object selected, no material
\* ticked, blank texture name, export directory missing) nothing was changed:
\* the UV layouts and pending transforms of the objects, the images, the node
\* trees and the model_unwrapped flag are what they were before the call,
\* with the unwrap option on as well.
C11_AsStated ==
    BakeRefused =>
        /\ scene.uv = bk.pre.scene.uv
        /\ scene.pending = bk.pre.scene.pending
        /\ scene.model_unwrapped = bk.pre.scene.model_unwrapped
        /\ images = bk.pre.images
        /\ node_trees = bk.pre.node_trees

\* save_textures could not create one of its two directories
DirectoryFailed == bk.fail = "directory"

\* C12: when the directory of the baked textures cannot be created the bake
\* returns CANCELLED, no queued connection was made (the Surface inputs are
\* fed as before the call), the export operator was not called and no image
\* file was written.
C12_AsStated ==
    (DirectoryFailed /\ BakeExited) =>
        /\ bk.pc = "cancelled"
        /\ \A m \in DOMAIN node_trees :
              node_trees[m].surface = bk.pre.node_trees[m].surface
        /\ exp.pc = "off"
        /\ saved = {}

\* the calls of prepare_new_nodes made for material m, by their number
CallsFor(m) ==
    {i \in DOMAIN bk.selected_materials : bk.selected_materials[i] = m}

\* the keys of the nodes one call of prepare_new_nodes creates
SynthesizedKeys ==
    textures_to_create
      \cup (IF (use_texture \/ export_after) /\ textures_to_create # {}
            THEN {Key_principled} ELSE {})
      \cup (IF (use_texture \/ export_after)
               /\ Lower(T_NORMAL) \in textures_to_create
            THEN {Key_normal_map_node} ELSE {})

\* the nodes the calls of prepare_new_nodes created in the tree of m
Synthesized(m) ==
    {[tree |-> m, key |-> k, serial |-> i] :
        k \in SynthesizedKeys, i \in CallsFor(m)}

\* C13: after a bake that returned FINISHED: with use_texture off no node
\* tree holds a node the operator created and every Surface input is fed by
\* the node that fed it before the bake; with use_texture on the Surface
\* input of every baked material is fed by a principled node the operator
\* created and the tree holds every created node but the glossy texture
\* node.
C13_AsStated ==
    bk.pc = "finished" =>
        IF ~use_texture
        THEN /\ CreatedNodes = {}
             /\ \A m \in DOMAIN node_trees :
                   node_trees[m].surface = bk.pre.node_trees[m].surface
        ELSE \A m \in Range(bk.selected_materials) :
                /\ node_trees[m].surface \in Synthesized(m)
                /\ node_trees[m].surface.key = Key_principled
                /\ node_trees[m].nodes =
                      {n \in Synthesized(m) : n.key # Lower(T_GLOSSY)}

---------------------------------------------------------------------------
(* Claims about the material list                                          *)

\* what the refresh is promised to leave, given the list before it
RefreshPromise(before, after) ==
    IF scene.active = None THEN after = <<>>
    ELSE /\ Len(after) = Len(material_slots)
         /\ \A i \in DOMAIN after :
               /\ after[i].material = material_slots[i]
               /\ after[i].selected <=>
                     \E j \in DOMAIN before :
                        /\ before[j].material = material_slots[i]
                        /\ before[j].selected

\* C14: a refresh with an active object leaves one entry per material slot,
\* in slot order, and an entry is selected exactly when the list held a
\* selected entry of the same material name before; without an active
\* object it leaves the list empty.
C14_AsStated ==
    [][update_material_list =>
          RefreshPromise(material_group, material_group')]_vars

---------------------------------------------------------------------------
(* Claims about unwrap()                                                   *)

\* the scene apart from the count of the calls
Untouched(s, t) == t = [s EXCEPT !.unwraps = t.unwraps]

\* C15: unwrap() acts once.  With model_unwrapped clear (and an active
\* object to unwrap) it applies the scale of the selected objects, projects
\* the UV layout and sets model_unwrapped; with model_unwrapped set it
\* changes nothing.  The flag is cleared where a bake or an export starts.
C15_OneShot ==
    [][/\ unwrap_call =>
            IF scene.model_unwrapped THEN Untouched(scene, scene')
            ELSE scene.active # None =>
                    /\ \A o \in scene.selected : "scale" \notin scene'.pending[o]
                    /\ \A o \in scene.selected \cup {scene.active} :
                          scene'.uv[o] = "smart"
                    /\ scene'.projections = scene.projections + 1
                    /\ scene'.model_unwrapped
       /\ operator_start => ~scene'.model_unwrapped]_vars

\* two calls of unwrap() with no operator started between them: the second
\* one found the flag set and the layout was projected once
C15_Witness ==
    /\ scene.unwraps = 2
    /\ scene.projections = 1
    /\ scene.model_unwrapped
    /\ \A o \in scene.selected : "scale" \notin scene.pending[o]

---------------------------------------------------------------------------
(* Claims about the bake operator with unwrap and export                   *)

\* C16: a bake with the unwrap option on and export_after on projects the
\* UV layout once in all: the export it triggers does not project again.
C16_AsStated ==
    (bk.pc = "finished" /\ simplifier.unwrap /\ export_after) =>
        scene.projections = 1

\* some listed material has a node tree without an output node
SomeOutputMissing ==
    \E i \in DOMAIN bk.selected_materials :
        ~bk.pre.node_trees[bk.selected_materials[i]].has_output

\* C17: when a ticked material has no output node the bake stops at the
\* first such material: it returns CANCELLED, bpy.ops.object.bake was not
\* called, no image file was written, and the render engine and the device
\* of the scene were never assigned.
C17_AsStated ==
    (SomeOutputMissing /\ bk.pc \notin {"called", "prepare", "failed"}) =>
        /\ bk.pc = "cancelled"
        /\ bk.fail = "missing_output"
        /\ bakes = <<>>
        /\ saved = {}
        /\ engine = bk.pre.engine
        /\ cycles_device = bk.pre.device

\* bpy.ops.object.bake raised RuntimeError for one of the maps
ChannelFailed == bk.fail = "runtime_error"

\* C18: when a bake of a map raises RuntimeError the operator cleans up and
\* returns CANCELLED: no image file was written, no later map was baked (at
\* most the maps before the failing one were), no queued connection was made
\* (the Surface inputs are fed as before), and the export was not called.
C18_AsStated ==
    (ChannelFailed /\ bk.pc # "failed") =>
        /\ bk.pc = "cancelled"
        /\ saved = {}
        /\ Len(bakes) = bk.ci - 1
        /\ \A m \in DOMAIN node_trees :
              node_trees[m].surface = bk.pre.node_trees[m].surface
        /\ exp.pc = "off"

\* the place of a step in the promised order
StepRank(e) ==
    CASE e = "bake"   -> 1
      [] e = "save"   -> 2
      [] e = "new"    -> 3
      [] e = "export" -> 4
      [] e = "old"    -> 5
      [] e = "remove" -> 6

\* the steps taken so far are in the promised order
InOrder(events) ==
    \A i, j \in DOMAIN events :
        i < j => StepRank(events[i]) <= StepRank(events[j])

\* C19: in every bake the Surface input of each material is fed as before
\* the call until every requested map was baked, and the steps after that
\* come in the order save, "new" connections, export (with export_after),
\* "old" connections (with use_texture off only), removal of the nodes; the
\* "old" connections are never run with use_texture on and never before the
\* export.
C19_AsStated ==
    /\ Len(bakes) < Len(order) =>
          \A m \in DOMAIN node_trees :
              node_trees[m].surface = bk.pre.node_trees[m].surface
    /\ InOrder(bk.events)
    /\ "old" \in Range(bk.events) => ~use_texture
    /\ "export" \in Range(bk.events) => export_after
    /\ ("old" \in Range(bk.events) /\ export_after) =>
          "export" \in Range(bk.events)

\* the image node of material m for map_name that the last call of
\* prepare_new_nodes for m created
ImageNode(m, map_name) ==
    [tree |-> m, key |-> map_name,
     serial |-> CHOOSE i \in CallsFor(m) : \A j \in CallsFor(m) : j <= i]

\* C20: a bake that returned FINISHED called bpy.ops.object.bake once for
\* each requested map, and at each of the calls the active node of the node
\* tree of every baked material was that material's image node for the map
\* being baked: a node of that tree, created in this run and not removed.
C20_OncePerChannel ==
    bk.pc = "finished" =>
        /\ Len(bakes) = Cardinality(textures_to_create)
        /\ {bakes[i].map_name : i \in DOMAIN bakes} = textures_to_create
        /\ \A i \in DOMAIN bakes :
              /\ DOMAIN bakes[i].active = Range(bk.selected_materials)
              /\ \A m \in Range(bk.selected_materials) :
                    bakes[i].active[m] = ImageNode(m, bakes[i].map_name)

\* a bake of two maps on two materials has returned FINISHED
C20_Witness ==
    /\ bk.pc = "finished"
    /\ Len(bakes) = 2
    /\ Cardinality(Range(bk.selected_materials)) = 2

---------------------------------------------------------------------------
(* Claims about the node layout                                            *)

\* the nodes the tree had before prepare_new_nodes
ExistingLocations == {output_location} \cup Range(locations)

\* C21: when prepare_new_nodes lays out its nodes (use_texture or
\* export_after, and a map requested) every node it created (the principled
\* node, the texture nodes, the normal map node) lies strictly above every
\* node the tree had before, wherever the output node and the other nodes
\* are.
C21_AsStated ==
    (lpc = "placed" /\ (use_texture \/ export_after)
                    /\ textures_to_create # {}) =>
        \A k \in DOMAIN new_locations : \A n \in ExistingLocations :
            new_locations[k].y > n.y

---------------------------------------------------------------------------
(* Claims about the queued connections and the removal of nodes            *)

\* C22: every queued "new" connection has its principled node: the node was
\* created in the tree of the material the connection is for, whatever
\* use_texture and export_after are and whatever maps are requested, none
\* included.
C22_AsStated ==
    bk.pc \in {"prepare", "bake"} =>
        \A i \in DOMAIN bk.new :
            /\ bk.new[i].bound
            /\ bk.new[i].node \in node_trees[bk.new[i].tree].nodes

\* C23: in one run of the bake operator no created node is removed twice
\* and nothing (a connection, a removal) is applied to a node that was
\* removed before, on any path: a RuntimeError of a bake, a failed save
\* followed by the connections and the removal, clean_up in bake_textures
\* followed by clean_up in execute.
C23_AsStated == ~bk.reused

---------------------------------------------------------------------------
(* Claims about the option tables of the batch exporter                    *)

\* C24: whatever export_enum is (ALL, MATERIALS, MODELS), the option table
\* execute selects has an entry for each of the formats it walks (obj, fbx,
\* glb, gltf, stl), so the walk does not raise and execute gets to setting
\* back the active object and the mode.
C24_AsStated ==
    tester.pc \in {"walk", "finished", "raised"} =>
        /\ \A i \in DOMAIN Formats : Formats[i] \in DOMAIN export_options
        /\ tester.pc = "raised" => t_active = <<>>

=============================================================================
